---- MODULE Spec2Model ----
(***************************************************************************)
(* Model of download_inaturalist_images_orig.py: a linear batch script     *)
(* that reads observation ids, queries the iNaturalist API once per        *)
(* observation, names every photo, builds the metadata table and downloads *)
(* the images.                                                             *)
(*                                                                         *)
(* Python values are modelled as follows.  A str is a sequence of          *)
(* one-character strings, an int is an integer, a dict is a function       *)
(* whose domain is the set of its keys, a list is a sequence.  Where a     *)
(* dict value may be of several Python types it is tagged with PyInt,      *)
(* PyStr or None.                                                          *)
(***************************************************************************)
EXTENDS Integers, Sequences, FiniteSets, TLC

----------------------------------------------------------------------------
(* Bounds of the model *)

\* longest list of observation ids read from observations.csv
MaxObs == 3

\* number of photos of the largest observation the API serves
BigPhotos == 9

----------------------------------------------------------------------------
(* Python built-ins *)

PyInt(n) == [type |-> "int", val |-> n]
PyStr(s) == [type |-> "str", val |-> s]
None == [type |-> "NoneType"]
NaN == [type |-> "float", val |-> "nan"]

\* d.get(k, default)
Get(d, k, default) == IF k \in DOMAIN d THEN d[k] ELSE default

\* d.update(e), as the value d has afterwards
Update(d, e) ==
  [k \in (DOMAIN d) \cup (DOMAIN e) |-> IF k \in DOMAIN e THEN e[k] ELSE d[k]]

\* d[k] = v, as the value d has afterwards
SetItem(d, k, v) == [x \in (DOMAIN d) \cup {k} |-> IF x = k THEN v ELSE d[x]]

StartsWith(s, p) == Len(s) >= Len(p) /\ SubSeq(s, 1, Len(p)) = p

RECURSIVE ReplaceOnce(_, _, _)
\* s.replace(old, new, 1): only the leftmost occurrence is replaced (used by
\* the mutant of OriginalSizeUrl)
ReplaceOnce(s, old, new) ==
  IF Len(s) < Len(old) THEN s
  ELSE IF StartsWith(s, old) THEN new \o SubSeq(s, Len(old) + 1, Len(s))
  ELSE <<Head(s)>> \o ReplaceOnce(Tail(s), old, new)

RECURSIVE Replace(_, _, _)
\* s.replace(old, new) for a non-empty old: every non-overlapping occurrence,
\* found from the left, is replaced; the replacement is not scanned again
Replace(s, old, new) ==
  IF Len(s) < Len(old) THEN s
  ELSE IF StartsWith(s, old)
       THEN new \o Replace(SubSeq(s, Len(old) + 1, Len(s)), old, new)
       ELSE <<Head(s)>> \o Replace(Tail(s), old, new)

\* the printable ASCII characters, code points 32 to 126 (code point 96, the
\* grave accent, cannot be written in a TLA+ string and is spelled "grave")
Ascii == <<" ","!","\"","#","$","%","&","'","(",")","*","+",",","-",".","/",
           "0","1","2","3","4","5","6","7","8","9",":",";","<","=",">","?",
           "@","A","B","C","D","E","F","G","H","I","J","K","L","M","N","O",
           "P","Q","R","S","T","U","V","W","X","Y","Z","[","\\","]","^","_",
           "grave","a","b","c","d","e","f","g","h","i","j","k","l","m","n","o",
           "p","q","r","s","t","u","v","w","x","y","z","{","|","}","~">>

\* ord(s) of a one-character str
ord(s) == 31 + (CHOOSE i \in 1..Len(Ascii) : Ascii[i] = s[1])

\* chr(n)
chr(n) == <<Ascii[n - 31]>>

Digits == <<"0","1","2","3","4","5","6","7","8","9">>

RECURSIVE Decimal(_)
\* str(n) of a non-negative int
Decimal(n) ==
  IF n < 10 THEN <<Digits[n + 1]>> ELSE Decimal(n \div 10) \o <<Digits[(n % 10) + 1]>>

\* "{}".format(v)
Format(v) ==
  IF v.type = "int" THEN Decimal(v.val)
  ELSE IF v.type = "str" THEN v.val
  ELSE <<"N","o","n","e">>

\* truth value of a str, or of None
Truthy(v) == v.type = "str" /\ v.val # <<>>

----------------------------------------------------------------------------
(* String constants of the script *)

CollectorNumberField == <<"C","o","l","l","e","c","t","o","r"," ","N","u","m","b","e","r">>
No_Collector_Number ==
  <<"N","o","_","C","o","l","l","e","c","t","o","r","_","N","u","m","b","e","r">>
large == <<"l","a","r","g","e">>
original == <<"o","r","i","g","i","n","a","l">>
Unknown == <<"U","n","k","n","o","w","n">>

keep_columns ==
  << "observation_id", "id", "collector_number", "photo_identifier",
     "created_at", "updated_at",
     "native_page_url", "native_username", "license", "subtype",
     "native_original_image_url",
     "license_code", "attribution", "license_name", "license_url",
     "type", "original_size_url" >>

rename_columns ==
  [ id |-> "photo_id",
    native_page_url |-> "inaturalist_page_url",
    native_username |-> "inaturalist_username",
    native_original_image_url |-> "original_image_url",
    original_size_url |-> "image_url" ]

\* "https://www.inaturalist.org/observations/{}.json".format(idno)
ObservationUrl(idno) ==
  <<"h","t","t","p","s",":","/","/","w","w","w",".","i","n","a","t","u","r",
    "a","l","i","s","t",".","o","r","g","/","o","b","s","e","r","v","a","t",
    "i","o","n","s","/">> \o Decimal(idno) \o <<".","j","s","o","n">>

\* "images/{}_{}.jpg".format(coll_no, photo_iden)
ImageName(coll_no, photo_iden) ==
  <<"i","m","a","g","e","s","/">> \o Format(coll_no) \o <<"_">>
    \o Format(photo_iden) \o <<".","j","p","g">>

----------------------------------------------------------------------------
(* The remote API: the observations the detail endpoint can serve.  The    *)
(* photo sub-object carries the fields the script projects, and one more.  *)

ApiPhotoKeys ==
  { "id", "large_url", "square_url", "created_at", "updated_at",
    "native_page_url", "native_username", "license", "subtype",
    "native_original_image_url", "license_code", "attribution",
    "license_name", "license_url", "type" }

PhotoObject(id, url) ==
  [k \in ApiPhotoKeys |->
     IF k = "id" THEN PyInt(id)
     ELSE IF k = "large_url" THEN PyStr(url)
     ELSE PyStr(<<"v">>)]

Without(d, k) == [x \in (DOMAIN d) \ {k} |-> d[x]]

PhotoEntry(obsid, id, url) ==
  [observation_id |-> PyInt(obsid), photo |-> PhotoObject(id, url)]

LargeUrl == <<"p","/","l","a","r","g","e",".","j","p","g">>
LargeLargeUrl == <<"l","a","r","g","e","/","p","/","l","a","r","g","e",".","j","p","g">>

CollectorField(value) ==
  [observation_field |-> [name |-> CollectorNumberField], value |-> value]

ObsIds == {100, 200, 300, 400, 500, 600, 700}

\* the JSON body served for /observations/{idno}.json
Api(idno) ==
  CASE idno = 100 ->
         \* no observation fields at all, one photo
         [observation_photos |-> << PhotoEntry(100, 555, LargeUrl) >>]
    [] idno = 200 ->
         \* Collector Number "AB 12"; the second photo has no large_url
         [observation_field_values |-> << CollectorField(<<"A","B"," ","1","2">>) >>,
          observation_photos |->
            << PhotoEntry(200, 601, LargeUrl),
               [observation_id |-> PyInt(200),
                photo |-> Without(PhotoObject(602, LargeUrl), "large_url")] >>]
    [] idno = 300 ->
         \* the same Collector Number, found after another field and before
         \* a second "Collector Number" field; many photos
         [observation_field_values |->
            << [observation_field |-> [name |-> <<"H","a","b","i","t","a","t">>],
                value |-> <<"w","e","t">>],
               CollectorField(<<"A","B","_","1","2">>),
               CollectorField(<<"Z","Z">>) >>,
          observation_photos |->
            [j \in 1..BigPhotos |-> PhotoEntry(300, 700 + j, LargeUrl)]]
    [] idno = 400 ->
         \* a Collector Number and no observation_photos
         [observation_field_values |-> << CollectorField(<<"C"," ","7">>) >>]
    [] idno = 500 ->
         \* a field without a name, a Collector Number field without a value;
         \* the photo has no license field
         [observation_field_values |->
            << [value |-> <<"Z","Z">>],
               [observation_field |-> [name |-> CollectorNumberField]] >>,
          observation_photos |->
            << [observation_id |-> PyInt(500),
                photo |-> Without(PhotoObject(801, LargeUrl), "license")] >>]
    [] idno = 600 ->
         \* Collector Number "C 7"; "large" occurs twice in the large_url
         [observation_field_values |-> << CollectorField(<<"C"," ","7">>) >>,
          observation_photos |-> << PhotoEntry(600, 901, LargeLargeUrl) >>]
    [] idno = 700 ->
         \* no Collector Number; the photo entry has neither an
         \* observation_id nor a photo sub-object
         [observation_field_values |-> << >>,
          observation_photos |-> << [position |-> PyInt(0)] >>]

----------------------------------------------------------------------------
(* State *)

VARIABLES
  input_file,         \* observations.csv: whether it exists, its columns, its id column
  pc,                 \* position of the script
  error,              \* the exception that ended the script, "" if none
  obs_ids,            \* list(observations['id'])
  obs_i,              \* position of the loop "for idno in obs_ids"
  obs,                \* the JSON body of the current observation
  photos,             \* obs.get('observation_photos', [])
  photo_i,            \* position of the loop "for photo in photos"
  col_num,            \* retrieve_collector_number(obs)
  images,             \* the list of photo_data dicts
  collector_numbers,  \* the module-level dict: collector number -> latest letter
  obs_counter,
  images_df,          \* the metadata table, None before it is built
  image_i,            \* position of the loop "for image in images"
  image_counter,
  dir_created,        \* whether os.mkdir('images') created the directory
  disk,               \* files the script has written: name -> "complete" or "partial"
  trace,              \* remote requests and pauses, in the order executed
  stdout              \* the lines printed

vars ==
  << input_file, pc, error, obs_ids, obs_i, obs, photos, photo_i, col_num, images,
     collector_numbers, obs_counter, images_df, image_i, image_counter,
     dir_created, disk, trace, stdout >>

EmptyDict == [k \in {} |-> None]

RECURSIVE SeqsUpTo(_, _)
\* the sequences over S of length at most n
SeqsUpTo(S, n) ==
  IF n = 0 THEN { << >> }
  ELSE LET shorter == SeqsUpTo(S, n - 1)
       IN  shorter \cup { Append(s, x) : s \in shorter, x \in S }

InputFiles ==
  { [exists |-> FALSE] }
    \cup { [exists |-> TRUE, columns |-> {"species_guess"}, ids |-> << >>] }
    \cup { [exists |-> TRUE, columns |-> {"id", "species_guess"}, ids |-> s] :
             s \in SeqsUpTo(ObsIds, MaxObs) }

Init ==
  /\ input_file \in InputFiles
  /\ pc = "load"
  /\ error = ""
  /\ obs_ids = << >>
  /\ obs_i = 1
  /\ obs = EmptyDict
  /\ photos = << >>
  /\ photo_i = 1
  /\ col_num = << >>
  /\ images = << >>
  /\ collector_numbers = EmptyDict
  /\ obs_counter = 0
  /\ images_df = None
  /\ image_i = 1
  /\ image_counter = 0
  /\ dir_created = FALSE
  /\ disk = EmptyDict
  /\ trace = << >>
  /\ stdout = << >>

----------------------------------------------------------------------------
(* Functions of the script *)

\* mutant of retrieve_image_letter: the stored letter is never advanced
retrieve_image_letter_NoAdvance(cn) == SetItem(collector_numbers, cn, <<"A">>)

\* the dict collector_numbers after retrieve_image_letter(cn); the letter
\* returned is its entry for cn
retrieve_image_letter(cn) ==
  IF cn \in DOMAIN collector_numbers /\ collector_numbers[cn] # << >>
  THEN SetItem(collector_numbers, cn, chr(ord(collector_numbers[cn]) + 1))
  ELSE SetItem(collector_numbers, cn, <<"A">>)

RECURSIVE ScanFields(_)
\* the loop of retrieve_collector_number over obsfields
ScanFields(obsfields) ==
  IF obsfields = << >> THEN No_Collector_Number
  ELSE IF Get(Get(Head(obsfields), "observation_field", EmptyDict), "name", << >>)
            = CollectorNumberField
       THEN Replace(Get(Head(obsfields), "value", No_Collector_Number), <<" ">>, <<"_">>)
       ELSE ScanFields(Tail(obsfields))

retrieve_collector_number(o) == ScanFields(Get(o, "observation_field_values", << >>))

\* mutant of OriginalSizeUrl: replace(..., 1)
OriginalSizeUrl_First(photo_data) ==
  ReplaceOnce(Get(photo_data, "large_url", PyStr(<< >>)).val, large, original)

\* photo_data.get('large_url', '').replace('large', 'original')
OriginalSizeUrl(photo_data) ==
  Replace(Get(photo_data, "large_url", PyStr(<< >>)).val, large, original)

\* photo_data as built by lines 61 to 64, before photo_identifier is set
PhotoData(photo, o) ==
  LET d1 == Update([observation_id |-> Get(photo, "observation_id", None)],
                   Get(photo, "photo", EmptyDict))
      d2 == SetItem(d1, "original_size_url", PyStr(OriginalSizeUrl(d1)))
  IN  SetItem(d2, "collector_number", PyStr(retrieve_collector_number(o)))

Range(s) == { s[i] : i \in 1..Len(s) }

\* the column labels of pd.DataFrame(imgs): the keys of all the dicts
Columns(imgs) == UNION { DOMAIN imgs[i] : i \in 1..Len(imgs) }

\* whether images_df[keep_columns] finds every label
HasKeepColumns(imgs) == Range(keep_columns) \subseteq Columns(imgs)

\* pd.DataFrame(imgs)[keep_columns].rename(columns=rename_columns): the
\* columns in order and one row per dict, NaN where a dict lacks the key
MetadataTable(imgs) ==
  LET renamed == [j \in 1..Len(keep_columns) |->
                    Get(rename_columns, keep_columns[j], keep_columns[j])]
  IN  [columns |-> renamed,
       rows |-> [i \in 1..Len(imgs) |->
                   [c \in Range(renamed) |->
                      LET j == CHOOSE n \in 1..Len(keep_columns) : renamed[n] = c
                      IN  Get(imgs[i], keep_columns[j], NaN)]]]

Raise(exception) ==
  /\ pc' = "aborted"
  /\ error' = exception

Sleep(seconds) == [op |-> "sleep", seconds |-> seconds]

----------------------------------------------------------------------------
(* The script, one action per step between two effects on its environment *)

\* lines 42 to 54: observations.csv is read and has an id column
LoadInput ==
  /\ pc = "load"
  /\ input_file.exists
  /\ "id" \in input_file.columns
  /\ obs_ids' = input_file.ids
  /\ stdout' = Append(stdout,
                 <<"Retrieving photo data for {} observations", Len(input_file.ids)>>)
  /\ images' = << >>
  /\ obs_counter' = 0
  /\ obs_i' = 1
  /\ pc' = "resolve"
  /\ UNCHANGED << input_file, error, obs, photos, photo_i, col_num,
                  collector_numbers, images_df, image_i, image_counter,
                  dir_created, disk, trace >>

\* mutant of LoadMissingFile: the handler reports and does not exit
LoadMissingFile_NoExit ==
  /\ pc = "load"
  /\ ~ input_file.exists
  /\ stdout' = Append(stdout,
                 <<"Could not find observations.csv. Program is now quitting.">>)
  /\ obs_ids' = << >>
  /\ pc' = "resolve"
  /\ UNCHANGED << input_file, error, obs_i, obs, photos, photo_i,
                  col_num, images, collector_numbers, obs_counter, images_df,
                  image_i, image_counter, dir_created, disk, trace >>

\* lines 42 to 46: FileNotFoundError is caught, reported, and the script exits
LoadMissingFile ==
  /\ pc = "load"
  /\ ~ input_file.exists
  /\ stdout' = Append(stdout,
                 <<"Could not find observations.csv. Program is now quitting.">>)
  /\ pc' = "exited"
  /\ UNCHANGED << input_file, error, obs_ids, obs_i, obs, photos, photo_i,
                  col_num, images, collector_numbers, obs_counter, images_df,
                  image_i, image_counter, dir_created, disk, trace >>

\* line 47: observations['id'] on a table without that column
LoadNoIdColumn ==
  /\ pc = "load"
  /\ input_file.exists
  /\ "id" \notin input_file.columns
  /\ Raise("KeyError")
  /\ UNCHANGED << input_file, obs_ids, obs_i, obs, photos, photo_i, col_num,
                  images, collector_numbers, obs_counter, images_df, image_i,
                  image_counter, dir_created, disk, trace, stdout >>

\* lines 55 to 59: the detail request of the next observation succeeds
GetObservation ==
  /\ pc = "resolve"
  /\ obs_i <= Len(obs_ids)
  /\ LET idno == obs_ids[obs_i]
         url == ObservationUrl(idno)
         body == Api(idno)
     IN  /\ trace' = Append(trace, [op |-> "GET", url |-> url])
         /\ obs' = body
         /\ photos' = Get(body, "observation_photos", << >>)
         /\ col_num' = retrieve_collector_number(body)
  /\ photo_i' = 1
  /\ pc' = "photo"
  /\ UNCHANGED << input_file, error, obs_ids, obs_i, images, collector_numbers,
                  obs_counter, images_df, image_i, image_counter, dir_created,
                  disk, stdout >>

\* line 57: requests.get(url).json() raises (transport error, body not JSON)
GetObservationFails ==
  /\ pc = "resolve"
  /\ obs_i <= Len(obs_ids)
  /\ trace' = Append(trace, [op |-> "GET", url |-> ObservationUrl(obs_ids[obs_i])])
  /\ Raise("RequestException")
  /\ UNCHANGED << input_file, obs_ids, obs_i, obs, photos, photo_i, col_num,
                  images, collector_numbers, obs_counter, images_df, image_i,
                  image_counter, dir_created, disk, stdout >>

\* mutant of ResolvePhotoById: the sentinel is given letters like any other
\* Collector Number
ResolvePhotoById_Lettered ==
  /\ pc = "photo"
  /\ photo_i <= Len(photos)
  /\ col_num = No_Collector_Number
  /\ LET photo_data == PhotoData(photos[photo_i], obs)
         cn == photo_data["collector_number"].val
         updated == retrieve_image_letter(cn)
     IN  /\ "id" \in DOMAIN photo_data
         /\ collector_numbers' = updated
         /\ images' = Append(images,
                        SetItem(photo_data, "photo_identifier", PyStr(updated[cn])))
  /\ photo_i' = photo_i + 1
  /\ UNCHANGED << input_file, pc, error, obs_ids, obs_i, obs, photos, col_num,
                  obs_counter, images_df, image_i, image_counter, dir_created,
                  disk, trace, stdout >>

\* lines 60 to 66, 69: a photo of an observation without Collector Number
ResolvePhotoById ==
  /\ pc = "photo"
  /\ photo_i <= Len(photos)
  /\ col_num = No_Collector_Number
  /\ LET photo_data == PhotoData(photos[photo_i], obs)
     IN  /\ "id" \in DOMAIN photo_data
         /\ images' = Append(images,
                        SetItem(photo_data, "photo_identifier", photo_data["id"]))
  /\ photo_i' = photo_i + 1
  /\ UNCHANGED << input_file, pc, error, obs_ids, obs_i, obs, photos, col_num,
                  collector_numbers, obs_counter, images_df, image_i,
                  image_counter, dir_created, disk, trace, stdout >>

\* line 66: photo_data['id'] when the API gave the photo no id
ResolvePhotoKeyError ==
  /\ pc = "photo"
  /\ photo_i <= Len(photos)
  /\ col_num = No_Collector_Number
  /\ "id" \notin DOMAIN PhotoData(photos[photo_i], obs)
  /\ Raise("KeyError")
  /\ UNCHANGED << input_file, obs_ids, obs_i, obs, photos, photo_i, col_num,
                  images, collector_numbers, obs_counter, images_df, image_i,
                  image_counter, dir_created, disk, trace, stdout >>

\* lines 60 to 65, 67 to 69: a photo of an observation with a Collector Number
ResolvePhotoByLetter ==
  /\ pc = "photo"
  /\ photo_i <= Len(photos)
  /\ col_num # No_Collector_Number
  /\ LET photo_data == PhotoData(photos[photo_i], obs)
         cn == photo_data["collector_number"].val
         updated == retrieve_image_letter(cn)
     IN  /\ collector_numbers' = updated
         /\ images' = Append(images,
                        SetItem(photo_data, "photo_identifier", PyStr(updated[cn])))
  /\ photo_i' = photo_i + 1
  /\ UNCHANGED << input_file, pc, error, obs_ids, obs_i, obs, photos, col_num,
                  obs_counter, images_df, image_i, image_counter, dir_created,
                  disk, trace, stdout >>

\* mutant of EndObservation: no pause after an observation
EndObservation_NoSleep ==
  /\ pc = "photo"
  /\ photo_i > Len(photos)
  /\ obs_counter' = obs_counter + 1
  /\ stdout' = IF (obs_counter + 1) % 10 = 0
               THEN Append(stdout,
                      <<"{} observations processed, {} total photo data retrieved",
                        obs_counter + 1, Len(images)>>)
               ELSE stdout
  /\ obs_i' = obs_i + 1
  /\ pc' = "resolve"
  /\ UNCHANGED << input_file, error, obs_ids, obs, photos, photo_i, col_num,
                  images, collector_numbers, images_df, image_i, image_counter,
                  dir_created, disk, trace >>

\* lines 70 to 74: the photos of the observation are done
EndObservation ==
  /\ pc = "photo"
  /\ photo_i > Len(photos)
  /\ trace' = Append(trace, Sleep(1))
  /\ obs_counter' = obs_counter + 1
  /\ stdout' = IF (obs_counter + 1) % 10 = 0
               THEN Append(stdout,
                      <<"{} observations processed, {} total photo data retrieved",
                        obs_counter + 1, Len(images)>>)
               ELSE stdout
  /\ obs_i' = obs_i + 1
  /\ pc' = "resolve"
  /\ UNCHANGED << input_file, error, obs_ids, obs, photos, photo_i, col_num,
                  images, collector_numbers, images_df, image_i, image_counter,
                  dir_created, disk >>

RetrievalComplete ==
  <<"Photo retrieval complete; {} observations processed, {} total photo data retrieved",
    obs_counter, Len(images)>>

\* lines 75 to 99: the metadata table is built and announced
ExportMetadata ==
  /\ pc = "resolve"
  /\ obs_i > Len(obs_ids)
  /\ HasKeepColumns(images)
  /\ images_df' = MetadataTable(images)
  /\ stdout' = stdout \o << RetrievalComplete,
                            <<"Image metadata outputted to image_metadata.csv">> >>
  /\ pc' = "mkdir"
  /\ UNCHANGED << input_file, error, obs_ids, obs_i, obs, photos, photo_i,
                  col_num, images, collector_numbers, obs_counter, image_i,
                  image_counter, dir_created, disk, trace >>

\* line 97: images_df[keep_columns] when a label is in no photo_data
ExportKeyError ==
  /\ pc = "resolve"
  /\ obs_i > Len(obs_ids)
  /\ ~ HasKeepColumns(images)
  /\ stdout' = Append(stdout, RetrievalComplete)
  /\ Raise("KeyError")
  /\ UNCHANGED << input_file, obs_ids, obs_i, obs, photos, photo_i, col_num,
                  images, collector_numbers, obs_counter, images_df, image_i,
                  image_counter, dir_created, disk, trace >>

\* lines 102 to 104, 110, 111: the images directory did not exist
MkdirCreates ==
  /\ pc = "mkdir"
  /\ dir_created' = TRUE
  /\ stdout' = stdout \o << <<"Created images directory.">>,
                            <<"Retrieving {} images", Len(images)>> >>
  /\ image_counter' = 0
  /\ image_i' = 1
  /\ pc' = "fetch"
  /\ UNCHANGED << input_file, error, obs_ids, obs_i, obs, photos, photo_i,
                  col_num, images, collector_numbers, obs_counter, images_df,
                  disk, trace >>

\* lines 102, 103, 105, 106, 110, 111: the images directory existed
MkdirExists ==
  /\ pc = "mkdir"
  /\ stdout' = stdout \o
       << <<"Images directory already exists, using existing images directory">>,
          <<"Retrieving {} images", Len(images)>> >>
  /\ image_counter' = 0
  /\ image_i' = 1
  /\ pc' = "fetch"
  /\ UNCHANGED << input_file, error, obs_ids, obs_i, obs, photos, photo_i,
                  col_num, images, collector_numbers, obs_counter, images_df,
                  dir_created, disk, trace >>

\* the filename of lines 113 to 115
ImageNameOf(image) ==
  ImageName(Get(image, "collector_number", PyStr(Unknown)),
            Get(image, "photo_identifier", PyStr(Unknown)))

\* lines 120 to 123, as the new value of stdout
FetchProgress ==
  IF (image_counter + 1) % 10 = 0
  THEN Append(stdout, <<"Retrieved {} of {} images", image_counter + 1, Len(images)>>)
  ELSE stdout

\* mutant of FetchDownload: the test is "image_url is not None"
FetchDownload_NotNone ==
  /\ pc = "fetch"
  /\ image_i <= Len(images)
  /\ LET image == images[image_i]
         image_name == ImageNameOf(image)
         image_url == Get(image, "original_size_url", None)
     IN  /\ image_url # None
         /\ disk' = SetItem(disk, image_name, "complete")
         /\ trace' = trace \o
              << [op |-> "urlretrieve", url |-> image_url.val, filename |-> image_name],
                 Sleep(1) >>
  /\ image_counter' = image_counter + 1
  /\ stdout' = FetchProgress
  /\ image_i' = image_i + 1
  /\ UNCHANGED << input_file, pc, error, obs_ids, obs_i, obs, photos, photo_i,
                  col_num, images, collector_numbers, obs_counter, images_df,
                  dir_created >>

\* lines 112 to 123: the image has a URL and its download succeeds
FetchDownload ==
  /\ pc = "fetch"
  /\ image_i <= Len(images)
  /\ LET image == images[image_i]
         image_name == ImageNameOf(image)
         image_url == Get(image, "original_size_url", None)
     IN  /\ Truthy(image_url)
         /\ disk' = SetItem(disk, image_name, "complete")
         /\ trace' = trace \o
              << [op |-> "urlretrieve", url |-> image_url.val, filename |-> image_name],
                 Sleep(1) >>
  /\ image_counter' = image_counter + 1
  /\ stdout' = FetchProgress
  /\ image_i' = image_i + 1
  /\ UNCHANGED << input_file, pc, error, obs_ids, obs_i, obs, photos, photo_i,
                  col_num, images, collector_numbers, obs_counter, images_df,
                  dir_created >>

\* lines 112 to 117, 120 to 123: the image has no URL
FetchSkip ==
  /\ pc = "fetch"
  /\ image_i <= Len(images)
  /\ ~ Truthy(Get(images[image_i], "original_size_url", None))
  /\ trace' = Append(trace, Sleep(1))
  /\ image_counter' = image_counter + 1
  /\ stdout' = FetchProgress
  /\ image_i' = image_i + 1
  /\ UNCHANGED << input_file, pc, error, obs_ids, obs_i, obs, photos, photo_i,
                  col_num, images, collector_numbers, obs_counter, images_df,
                  dir_created, disk >>

\* mutant of FetchFails: the error is caught and the loop goes on
FetchFails_Continues ==
  /\ pc = "fetch"
  /\ image_i <= Len(images)
  /\ LET image == images[image_i]
         image_name == ImageNameOf(image)
         image_url == Get(image, "original_size_url", None)
     IN  /\ Truthy(image_url)
         /\ \E opened \in BOOLEAN :
              disk' = IF opened THEN SetItem(disk, image_name, "partial") ELSE disk
         /\ trace' = trace \o
              << [op |-> "urlretrieve", url |-> image_url.val, filename |-> image_name],
                 Sleep(1) >>
  /\ error' = "URLError"
  /\ image_counter' = image_counter + 1
  /\ stdout' = FetchProgress
  /\ image_i' = image_i + 1
  /\ UNCHANGED << input_file, pc, obs_ids, obs_i, obs, photos, photo_i, col_num,
                  images, collector_numbers, obs_counter, images_df, dir_created >>

\* line 118: urlretrieve raises.  It raises either before it opens the file
\* (the request failed) or after it has written what it received (the
\* transfer broke off), which leaves an incomplete file under the name.
FetchFails ==
  /\ pc = "fetch"
  /\ image_i <= Len(images)
  /\ LET image == images[image_i]
         image_name == ImageNameOf(image)
         image_url == Get(image, "original_size_url", None)
     IN  /\ Truthy(image_url)
         /\ \E opened \in BOOLEAN :
              disk' = IF opened THEN SetItem(disk, image_name, "partial") ELSE disk
         /\ trace' = Append(trace,
              [op |-> "urlretrieve", url |-> image_url.val, filename |-> image_name])
  /\ Raise("URLError")
  /\ UNCHANGED << input_file, obs_ids, obs_i, obs, photos, photo_i, col_num,
                  images, collector_numbers, obs_counter, images_df, image_i,
                  image_counter, dir_created, stdout >>

\* line 124
Finish ==
  /\ pc = "fetch"
  /\ image_i > Len(images)
  /\ stdout' = Append(stdout,
                 <<"Download complete, {} of {} images retrieved", Len(images), Len(images)>>)
  /\ pc' = "done"
  /\ UNCHANGED << input_file, error, obs_ids, obs_i, obs, photos, photo_i,
                  col_num, images, collector_numbers, obs_counter, images_df,
                  image_i, image_counter, dir_created, disk, trace >>

Next ==
  \/ LoadInput
  \/ LoadMissingFile
  \/ LoadNoIdColumn
  \/ GetObservation
  \/ GetObservationFails
  \/ ResolvePhotoById
  \/ ResolvePhotoKeyError
  \/ ResolvePhotoByLetter
  \/ EndObservation
  \/ ExportMetadata
  \/ ExportKeyError
  \/ MkdirCreates
  \/ MkdirExists
  \/ FetchDownload
  \/ FetchSkip
  \/ FetchFails
  \/ Finish

Spec == Init /\ [][Next]_vars

----------------------------------------------------------------------------
(* Properties *)

Sentinel == PyStr(No_Collector_Number)

\* the line that announces the end of the Photo Resolver stage was printed
ResolutionComplete ==
  \E i \in 1..Len(stdout) :
    stdout[i][1] =
      "Photo retrieval complete; {} observations processed, {} total photo data retrieved"

IsRequest(event) == event.op \in {"GET", "urlretrieve"}

image_metadata_csv == <<"i","m","a","g","e","_","m","e","t","a","d","a","t","a",".","c","s","v">>

\* C1: once every observation has been resolved, the metadata CSV file is on
\* disk before the first image download starts, with one row per PhotoRecord
\* in resolver order.
C1_MetadataFilePersisted ==
  pc \in {"mkdir", "fetch", "done"} =>
    /\ image_metadata_csv \in DOMAIN disk
    /\ Len(images_df.rows) = Len(images)

OutputColumns ==
  << "observation_id", "photo_id", "collector_number", "photo_identifier",
     "created_at", "updated_at", "inaturalist_page_url", "inaturalist_username",
     "license", "subtype", "original_image_url", "license_code", "attribution",
     "license_name", "license_url", "type", "image_url" >>

\* C2: in every run that completes resolution the metadata table has exactly
\* the 17 output columns in their fixed order and one row per resolved photo,
\* in resolver-visit order, whatever the resolved records are.
C2_TableAlwaysSeventeenColumns ==
  ResolutionComplete =>
    /\ images_df # None
    /\ images_df.columns = OutputColumns
    /\ Len(images_df.columns) = 17
    /\ Len(images_df.rows) = Len(images)
    /\ \A i \in 1..Len(images) :
         /\ DOMAIN images_df.rows[i] = Range(OutputColumns)
         /\ images_df.rows[i]["photo_id"] = Get(images[i], "id", NaN)
         /\ images_df.rows[i]["photo_identifier"] = images[i]["photo_identifier"]

Letters == <<"A","B","C","D","E","F","G","H","I","J","K","L","M",
             "N","O","P","Q","R","S","T","U","V","W","X","Y","Z">>

\* the number of records up to the i-th that have the i-th's CollectorNumber
Rank(i) ==
  Cardinality({ j \in 1..i :
                  images[j]["collector_number"] = images[i]["collector_number"] })

\* C3: for every CollectorNumber other than the sentinel, the k-th photo
\* encountered with it over the whole run has the k-th letter, starting at
\* 'A', as its PhotoIdentifier.
C3_KthPhotoGetsKthLetter ==
  \A i \in 1..Len(images) :
    images[i]["collector_number"] # Sentinel =>
      /\ Rank(i) <= Len(Letters)
      /\ images[i]["photo_identifier"] = PyStr(<<Letters[Rank(i)]>>)

\* C4: processing a photo of an observation whose CollectorNumber is the
\* sentinel gives it the photo's own raw numeric id as PhotoIdentifier, not a
\* letter, and leaves the CollectorNumber-to-letter map unchanged.
C4_SentinelUsesPhotoId ==
  [][ (pc = "photo" /\ col_num = No_Collector_Number
         /\ Len(images') = Len(images) + 1)
        => /\ collector_numbers' = collector_numbers
           /\ images'[Len(images')]["collector_number"] = Sentinel
           /\ images'[Len(images')]["photo_identifier"]
                = photos[photo_i]["photo"]["id"]
           /\ images'[Len(images')]["photo_identifier"].type = "int" ]_vars

C4_Witness ==
  \E i \in 1..Len(images) :
    /\ images[i]["collector_number"] = Sentinel
    /\ images[i]["photo_identifier"] = PyInt(555)
    /\ collector_numbers # EmptyDict

\* the filename "images/{CollectorNumber}_{PhotoIdentifier}.jpg" of a record
FileNameOf(rec) ==
  <<"i","m","a","g","e","s","/">> \o rec["collector_number"].val \o <<"_">>
    \o (IF rec["photo_identifier"].type = "int"
        THEN Decimal(rec["photo_identifier"].val)
        ELSE rec["photo_identifier"].val)
    \o <<".","j","p","g">>

\* C5 as stated: no two resolved PhotoRecords share both CollectorNumber and
\* PhotoIdentifier, so their filenames are pairwise distinct.
C5_AllNamesDistinct ==
  \A i, j \in 1..Len(images) :
    i < j =>
      /\ ~ ( /\ images[i]["collector_number"] = images[j]["collector_number"]
             /\ images[i]["photo_identifier"] = images[j]["photo_identifier"] )
      /\ FileNameOf(images[i]) # FileNameOf(images[j])

\* C5 amended: two resolved PhotoRecords share CollectorNumber and
\* PhotoIdentifier, or a filename, only if both have the sentinel
\* CollectorNumber and the same photo id.
C5_NamesDistinctUnlessSamePhoto ==
  \A i, j \in 1..Len(images) :
    ( /\ i < j
      /\ \/ /\ images[i]["collector_number"] = images[j]["collector_number"]
            /\ images[i]["photo_identifier"] = images[j]["photo_identifier"]
         \/ FileNameOf(images[i]) = FileNameOf(images[j]) )
      => /\ images[i]["collector_number"] = Sentinel
         /\ images[j]["collector_number"] = Sentinel
         /\ images[i]["id"] = images[j]["id"]

\* the same observation resolved twice under a Collector Number, and a
\* record without Collector Number among them
C5_Witness ==
  /\ \E i, j \in 1..Len(images) :
       /\ i < j
       /\ images[i]["collector_number"] # Sentinel
       /\ images[i]["id"] = images[j]["id"]
  /\ \E i \in 1..Len(images) : images[i]["collector_number"] = Sentinel

\* the positions at which "large" occurs in u
Occurrences(u) == { p \in 1..(Len(u) - 4) : SubSeq(u, p, p + 4) = large }

RECURSIVE Flatten(_)
Flatten(ss) == IF ss = << >> THEN << >> ELSE Head(ss) \o Flatten(Tail(ss))

\* u with "large" replaced by "original" at the positions of ps
ReplacedAt(u, ps) ==
  Flatten([p \in 1..Len(u) |->
             IF p \in ps THEN original
             ELSE IF \E q \in ps : q < p /\ p <= q + 4 THEN << >>
             ELSE <<u[p]>>])

FirstOccurrence(u) ==
  { p \in Occurrences(u) : \A q \in Occurrences(u) : p <= q }

LargeUrlOf(rec) == IF "large_url" \in DOMAIN rec THEN rec["large_url"].val ELSE << >>

\* C6 as stated: original_size_url is large_url with the first occurrence of
\* "large" replaced by "original" and every later occurrence unchanged; the
\* empty string if large_url is absent.
C6_FirstOccurrenceReplaced ==
  \A i \in 1..Len(images) :
    images[i]["original_size_url"]
      = PyStr(ReplacedAt(LargeUrlOf(images[i]), FirstOccurrence(LargeUrlOf(images[i]))))

\* C6 amended: original_size_url is large_url with every occurrence of
\* "large" replaced by "original"; the empty string if large_url is absent.
C6_EveryOccurrenceReplaced ==
  \A i \in 1..Len(images) :
    /\ images[i]["original_size_url"]
         = PyStr(ReplacedAt(LargeUrlOf(images[i]), Occurrences(LargeUrlOf(images[i]))))
    /\ "large_url" \notin DOMAIN images[i] => images[i]["original_size_url"] = PyStr(<< >>)

C6_Witness ==
  /\ \E i \in 1..Len(images) : Cardinality(Occurrences(LargeUrlOf(images[i]))) = 2
  /\ \E i \in 1..Len(images) : "large_url" \notin DOMAIN images[i]

\* C7: if observations.csv is missing the script reports it and exits: it is
\* never past the exit, no request is issued, no file is written, no images
\* directory is created and no metadata table is built.
C7_MissingInputStopsEverything ==
  ~ input_file.exists =>
    /\ pc \in {"load", "exited"}
    /\ pc = "exited" =>
         stdout = << <<"Could not find observations.csv. Program is now quitting.">> >>
    /\ trace = << >>
    /\ disk = EmptyDict
    /\ ~ dir_created
    /\ images_df = None
    /\ images = << >>

C7_Witness ==
  /\ ~ input_file.exists
  /\ pc = "exited"
  /\ Len(stdout) = 1

\* the downloads issued so far, in order
Downloads ==
  LET IsDownload(event) == event.op = "urlretrieve"
      issued == SelectSeq(trace, IsDownload)
  IN  [k \in 1..Len(issued) |-> <<issued[k].url, issued[k].filename>>]

\* the download the n-th row of the metadata table calls for, if any
RowDownload(n) ==
  LET row == images_df.rows[n]
  IN  IF row["image_url"].type = "str" /\ row["image_url"].val # << >>
      THEN << <<row["image_url"].val, FileNameOf(row)>> >>
      ELSE << >>

\* C8: the Image Fetcher visits the records once each in the row order of the
\* metadata table; a record is downloaded to
\* images/{collector_number}_{photo_identifier}.jpg exactly if its URL is
\* non-empty, and a record without URL creates no file.
C8_FetcherFollowsRows ==
  pc \in {"fetch", "done"} =>
    /\ Downloads = Flatten([n \in 1..(image_i - 1) |-> RowDownload(n)])
    /\ DOMAIN disk = { Downloads[k][2] : k \in 1..Len(Downloads) }
    /\ image_counter = image_i - 1
    /\ pc = "done" => image_i - 1 = Len(images)

C8_Witness ==
  /\ pc = "done"
  /\ \E n \in 1..Len(images) : RowDownload(n) = << >>
  /\ \E n \in 1..Len(images) : RowDownload(n) # << >>

\* C9: no two remote requests are issued back to back: every request but the
\* last is directly followed by a pause.
C9_PauseBetweenRequests ==
  \A k \in 1..(Len(trace) - 1) :
    IsRequest(trace[k]) => trace[k + 1] = [op |-> "sleep", seconds |-> 1]

\* two detail requests, then two downloads
C9_Witness ==
  /\ pc = "done"
  /\ \E k \in 1..(Len(trace) - 6) :
       /\ trace[k].op = "GET"
       /\ trace[k + 2].op = "GET"
       /\ trace[k + 4].op = "urlretrieve"
       /\ trace[k + 6].op = "urlretrieve"

\* the filenames of the images downloaded before the image at image_i
DownloadedBefore ==
  { FileNameOf(images[n]) :
      n \in { m \in 1..(image_i - 1) : images[m]["original_size_url"].val # << >> } }

\* C10 as stated: after a failed request the script has stopped, the failed
\* request is the last thing it did, a failure during resolution leaves no
\* metadata table, no images directory and no image, and a failure during
\* download leaves on disk exactly the images downloaded before the failing
\* one.
C10_ExactlyEarlierImages ==
  error \in {"RequestException", "URLError"} =>
    /\ pc = "aborted"
    /\ IsRequest(trace[Len(trace)])
    /\ error = "RequestException" =>
         disk = EmptyDict /\ ~ dir_created /\ images_df = None
    /\ error = "URLError" =>
         /\ DOMAIN disk = DownloadedBefore
         /\ \A name \in DOMAIN disk : disk[name] = "complete"

\* C10 amended: as above, but a failure during download leaves on disk the
\* images downloaded before the failing one and possibly an incomplete file
\* under the failing image's own filename, and nothing else.
C10_EarlierImagesAndPartial ==
  error \in {"RequestException", "URLError"} =>
    /\ pc = "aborted"
    /\ IsRequest(trace[Len(trace)])
    /\ error = "RequestException" =>
         disk = EmptyDict /\ ~ dir_created /\ images_df = None
    /\ error = "URLError" =>
         LET failing == FileNameOf(images[image_i])
         IN  /\ DownloadedBefore \subseteq DOMAIN disk
             /\ DOMAIN disk \subseteq DownloadedBefore \cup {failing}
             /\ \A name \in (DOMAIN disk) \ {failing} : disk[name] = "complete"

\* the third download failed after it had opened its file
C10_Witness ==
  /\ error = "URLError"
  /\ image_i = 3
  /\ Cardinality(DOMAIN disk) = 3
  /\ disk[FileNameOf(images[image_i])] = "partial"

====
